---- MODULE Spec2Model ----
(***************************************************************************)
(* Model of the CAB deck generator (change-commitee): week arithmetic      *)
(* (periods.py), the overlap filter (services.py) and the timeline packing *)
(* of build_timeline_slide (render/timeline.py).                           *)
(*                                                                         *)
(* A datetime is the record [ord, sec, us]: proleptic Gregorian ordinal of *)
(* the day (date.toordinal), second of the day and microsecond, which is   *)
(* the (days, seconds, microseconds) normal form Python's datetime and     *)
(* timedelta arithmetic works in.                                          *)
(***************************************************************************)
EXTENDS Integers, Sequences, FiniteSets, TLC

\* ------------------------------------------------------------------ bounds
MaxEvents == 2
MaxWords == 3
MaxLayouts == 3
MaxOverrides == 2
MaxParts == 2

\* ------------------------------------------------------- datetime library
SECONDS_PER_DAY == 86400
US_PER_SECOND == 1000000

\* datetime._days_before_year / _days_before_month / _ymd2ord
IsLeap(y) == (y % 4 = 0) /\ ((y % 100 # 0) \/ (y % 400 = 0))

DaysBeforeYear(y) ==
    LET p == y - 1 IN p * 365 + (p \div 4) - (p \div 100) + (p \div 400)

DaysBeforeMonth(y, m) ==
    LET cum == <<0, 31, 59, 90, 120, 151, 181, 212, 243, 273, 304, 334>>
    IN cum[m] + (IF m > 2 /\ IsLeap(y) THEN 1 ELSE 0)

\* datetime(y, m, d, hh, mi, ss, us)
DT(y, m, d, hh, mi, ss, u) ==
    [ord |-> DaysBeforeYear(y) + DaysBeforeMonth(y, m) + d,
     sec |-> hh * 3600 + mi * 60 + ss,
     us  |-> u]

\* datetime.weekday(): Monday is 0
Weekday(dt) == (dt.ord + 6) % 7

\* datetime + timedelta(days, seconds, microseconds), normalised
AddDelta(dt, days, secs, micros) ==
    LET u == dt.us + micros
        s == dt.sec + secs + (u \div US_PER_SECOND)
    IN [ord |-> dt.ord + days + (s \div SECONDS_PER_DAY),
        sec |-> s % SECONDS_PER_DAY,
        us  |-> u % US_PER_SECOND]

\* (a - b).days : the days field of the normalised timedelta
DeltaDays(a, b) ==
    LET u == a.us - b.us
        s == a.sec - b.sec + (u \div US_PER_SECOND)
    IN (a.ord - b.ord) + (s \div SECONDS_PER_DAY)

DtLess(a, b) ==
    \/ a.ord < b.ord
    \/ a.ord = b.ord /\ a.sec < b.sec
    \/ a.ord = b.ord /\ a.sec = b.sec /\ a.us < b.us

DtLeq(a, b) == a = b \/ DtLess(a, b)

\* a - b as a normalised timedelta <<days, seconds, microseconds>>
Delta(a, b) ==
    LET u == a.us - b.us
        s == a.sec - b.sec + (u \div US_PER_SECOND)
    IN <<(a.ord - b.ord) + (s \div SECONDS_PER_DAY), s % SECONDS_PER_DAY,
         u % US_PER_SECOND>>

\* Mutation: a Monday reference date jumps back a whole week
RelativeMondayStrictlyBefore(dt) ==
    LET jumpdays == IF Weekday(dt) = 0 THEN 7 ELSE Weekday(dt)
    IN AddDelta(dt, 0 - jumpdays, 0, 0)

\* ref_date + relativedelta(weekday=MO(-1)): back to the latest Monday
RelativeMondayMinus1(dt) ==
    LET jumpdays == (Weekday(dt) - 0) % 7
    IN AddDelta(dt, 0 - jumpdays, 0, 0)

\* .replace(hour=0, minute=0, second=0, microsecond=0)
ReplaceMidnight(dt) == [ord |-> dt.ord, sec |-> 0, us |-> 0]

\* -------------------------------------------------------------- periods.py
monday_current_of(ref) == ReplaceMidnight(RelativeMondayMinus1(ref))

\* Mutation: the window ends six days after its Monday
week_bounds_splus1_six_days(ref) ==
    LET monday_current == monday_current_of(ref)
        mnext == AddDelta(monday_current, 7, 0, 0)
        snext == AddDelta(AddDelta(mnext, 6, 0, 0), 0, 0, 0 - 1)
    IN <<monday_current, mnext, snext>>

week_bounds_splus1(ref) ==
    LET monday_current == monday_current_of(ref)
        mnext == AddDelta(monday_current, 7, 0, 0)
        snext == AddDelta(AddDelta(mnext, 7, 0, 0), 0, 0, 0 - 1)
    IN <<monday_current, mnext, snext>>

\* Mutation: the microsecond is not subtracted from the end of the window
week_bounds_sminus1_no_microsecond(ref) ==
    LET monday_current == monday_current_of(ref)
        mprev == AddDelta(monday_current, 0 - 7, 0, 0)
        sprev == AddDelta(mprev, 7, 0, 0)
    IN <<mprev, sprev>>

week_bounds_sminus1(ref) ==
    LET monday_current == monday_current_of(ref)
        mprev == AddDelta(monday_current, 0 - 7, 0, 0)
        sprev == AddDelta(AddDelta(mprev, 7, 0, 0), 0, 0, 0 - 1)
    IN <<mprev, sprev>>

week_bounds_current(ref) ==
    LET monday_current == monday_current_of(ref)
        sunday_current == AddDelta(AddDelta(monday_current, 7, 0, 0), 0, 0, 0 - 1)
    IN <<monday_current, sunday_current>>

\* services.compute_weeks
compute_weeks(ref) ==
    LET n == week_bounds_splus1(ref)
        p == week_bounds_sminus1(ref)
    IN <<n[2], n[3], p[1], p[2]>>

\* Mutation: strict containment in the window instead of overlap
filter_mask_containment(row, mnext, snext) ==
    DtLeq(mnext, row.start_dt) /\ DtLeq(row.end_dt, snext)

\* Mutation: an event ending exactly at the window start is rejected
filter_mask_strict_end(row, mnext, snext) ==
    DtLeq(row.start_dt, snext) /\ DtLess(mnext, row.end_dt)

\* services.filter_week_df: the rows of df whose mask is true, in df order
filter_mask(row, mnext, snext) ==
    DtLeq(row.start_dt, snext) /\ DtLeq(mnext, row.end_dt)

RECURSIVE filter_week_df(_, _, _)
filter_week_df(df, mnext, snext) ==
    IF df = <<>> THEN <<>>
    ELSE LET rest == filter_week_df(Tail(df), mnext, snext)
         IN IF filter_mask(Head(df), mnext, snext)
            THEN <<Head(df)>> \o rest
            ELSE rest

\* ------------------------------------------------- exact slide coordinates
(***************************************************************************)
(* The code computes horizontal positions as IEEE doubles and truncates    *)
(* them with int().  The model computes the same expressions exactly: a    *)
(* coordinate is emu + (sub + usub / 10^6) / FX_DEN EMU, with              *)
(* 0 <= sub < FX_DEN and 0 <= usub < 10^6, so every position of a          *)
(* microsecond timestamp on the 7-column grid is representable.  For the   *)
(* timestamps of Intervals and this slide width the truncated exact values *)
(* are the integers the double computation truncates to.                   *)
(***************************************************************************)
col_count == 7
FX_DEN == col_count * SECONDS_PER_DAY

FxInt(n) == [emu |-> n, sub |-> 0, usub |-> 0]

FxAdd(a, b) ==
    LET u == a.usub + b.usub
        s == a.sub + b.sub + (u \div US_PER_SECOND)
    IN [emu |-> a.emu + b.emu + (s \div FX_DEN),
        sub |-> s % FX_DEN,
        usub |-> u % US_PER_SECOND]

FxSub(a, b) ==
    LET u == a.usub - b.usub
        s == a.sub - b.sub + (u \div US_PER_SECOND)
    IN [emu |-> a.emu - b.emu + (s \div FX_DEN),
        sub |-> s % FX_DEN,
        usub |-> u % US_PER_SECOND]

\* k * a for an integer k >= 0
FxScale(k, a) ==
    LET u == k * a.usub
        s == k * a.sub + (u \div US_PER_SECOND)
    IN [emu |-> k * a.emu + (s \div FX_DEN),
        sub |-> s % FX_DEN,
        usub |-> u % US_PER_SECOND]

FxLess(a, b) ==
    \/ a.emu < b.emu
    \/ a.emu = b.emu /\ a.sub < b.sub
    \/ a.emu = b.emu /\ a.sub = b.sub /\ a.usub < b.usub

\* int(x): truncation toward zero
FxTrunc(a) ==
    IF a.emu < 0 /\ (a.sub # 0 \/ a.usub # 0) THEN a.emu + 1 ELSE a.emu

\* <<q, r>> with a * b = q * c + r and 0 <= r < c, without forming a * b
RECURSIVE MulDivMod(_, _, _)
MulDivMod(a, b, c) ==
    IF b = 0 THEN <<0, 0>>
    ELSE LET h == MulDivMod(a, b \div 2, c)
             odd == b % 2
             r == 2 * h[2] + odd * (a % c)
         IN <<2 * h[1] + odd * (a \div c) + (r \div c), r % c>>

\* pptx.util.Cm(n / d) = int(n / d * 360000)
EMU_PER_CM == 360000
Cm(n, d) == (n * EMU_PER_CM) \div d

\* ------------------------------------------- render/timeline.py, geometry
\* prs.slide_width of the template (16:9)
SLIDE_WIDTH == 12192000

left_cm == 1
right_cm == 1
grid_left == Cm(left_cm, 1)
grid_width == SLIDE_WIDTH - Cm(left_cm + right_cm, 1)
col_gap == Cm(15, 100)
\* 7 * col_width, the numerator of the true division of line 40
col_width_num == grid_width - col_gap * (col_count - 1)
col_width ==
    [emu |-> col_width_num \div col_count,
     sub |-> (col_width_num % col_count) * SECONDS_PER_DAY,
     usub |-> 0]

MIN_BOX_WIDTH_CM == 5
MinBoxWidth == Cm(MIN_BOX_WIDTH_CM, 1)

day_index(dt, mnext) ==
    LET d == DeltaDays(dt, mnext)
        lo == IF d < 6 THEN d ELSE 6
    IN IF lo > 0 THEN lo ELSE 0

\* Mutation: the lower bound of the window is not enforced
clamp_to_week_no_lower(dt, mnext, snext) ==
    IF DtLess(snext, dt) THEN snext ELSE dt

\* Mutation: the upper bound of the window is not enforced
clamp_to_week_no_upper(dt, mnext, snext) ==
    IF DtLess(dt, mnext) THEN mnext ELSE dt

clamp_to_week(dt, mnext, snext) ==
    IF DtLess(dt, mnext) THEN mnext
    ELSE IF DtLess(snext, dt) THEN snext
    ELSE dt

\* seconds / 86400 clipped to [0, 1], kept as the pair (sec, us) of the
\* numerator sec + us / 10^6 over 86400
time_fraction_of_day(dt) ==
    IF dt.sec >= SECONDS_PER_DAY THEN [sec |-> SECONDS_PER_DAY, us |-> 0]
    ELSE IF dt.sec < 0 THEN [sec |-> 0, us |-> 0]
    ELSE [sec |-> dt.sec, us |-> dt.us]

\* col_width * frac
ColWidthTimes(frac) ==
    LET b == MulDivMod(col_width_num, frac.sec, FX_DEN)
        a == MulDivMod(col_width_num, frac.us, US_PER_SECOND)
        s == b[2] + a[1]
    IN [emu |-> b[1] + (s \div FX_DEN), sub |-> s % FX_DEN, usub |-> a[2]]

\* grid_left + idx * (col_width + col_gap) + col_width * frac
EdgeAt(idx, frac) ==
    FxAdd(FxAdd(FxInt(grid_left), FxScale(idx, FxAdd(col_width, FxInt(col_gap)))),
          ColWidthTimes(frac))

\* ------------------------------------ render/timeline.py, one loop iteration
\* Mutation: only a negative width is corrected
is_small_negative_only(width0) == FxLess(width0, FxInt(0))

\* Line 86: width < Cm(MIN_BOX_WIDTH_CM)
is_small(width0) == FxLess(width0, FxInt(MinBoxWidth))

\* Mutation: a last day before the first day is kept
fix_end_idx_unchanged(start_idx, end_idx0) == end_idx0

\* Lines 74-75: if end_idx < start_idx: end_idx = start_idx
fix_end_idx(start_idx, end_idx0) ==
    IF end_idx0 < start_idx THEN start_idx ELSE end_idx0

\* Mutation: a box that is too narrow grows to the left of its right edge
expand_min_width_to_the_left(left, right0) ==
    LET width0 == FxSub(right0, left)
        small == is_small(width0)
    IN [left |-> IF small THEN FxSub(right0, FxInt(MinBoxWidth)) ELSE left,
        width |-> IF small THEN FxInt(MinBoxWidth) ELSE width0,
        right |-> right0,
        widened |-> small]

\* Lines 85-88: width = right - left; below Cm(MIN_BOX_WIDTH_CM) the width
\* becomes Cm(MIN_BOX_WIDTH_CM) and right = left + width
expand_min_width(left, right0) ==
    LET width0 == FxSub(right0, left)
        small == is_small(width0)
        width == IF small THEN FxInt(MinBoxWidth) ELSE width0
    IN [left |-> left,
        width |-> width,
        right |-> IF small THEN FxAdd(left, width) ELSE right0,
        widened |-> small]

\* Lines 69-92: the geometry of one row of week_df in the window.
BoxOf(row, mnext, snext) ==
    LET start_dt == clamp_to_week(row.start_dt, mnext, snext)
        end_dt == clamp_to_week(row.end_dt, mnext, snext)
        start_idx == day_index(start_dt, mnext)
        end_idx0 == day_index(end_dt, mnext)
        end_idx == fix_end_idx(start_idx, end_idx0)
        start_frac == time_fraction_of_day(start_dt)
        end_frac == time_fraction_of_day(end_dt)
        left0 == EdgeAt(start_idx, start_frac)
        right0 == EdgeAt(end_idx, end_frac)
        extent == expand_min_width(left0, right0)
        left == extent.left
        width == extent.width
        right == extent.right
        small == extent.widened
    IN [id |-> row.id, raw_start |-> row.start_dt, raw_end |-> row.end_dt,
        start_dt |-> start_dt, end_dt |-> end_dt,
        start_idx |-> start_idx, end_idx |-> end_idx,
        start_frac |-> start_frac, end_frac |-> end_frac,
        left |-> left, width |-> width, widened |-> small,
        left_emu |-> FxTrunc(left), right_emu |-> FxTrunc(right)]

\* Mutation: the two edges of the stored segment are confused
overlap_edges_swapped(segments, left_emu, right_emu) ==
    \E k \in 1..Len(segments) :
        ~(right_emu <= segments[k][2] \/ left_emu >= segments[k][1])

\* Mutation: boxes that only touch count as overlapping
overlap_closed(segments, left_emu, right_emu) ==
    \E k \in 1..Len(segments) :
        ~(right_emu < segments[k][1] \/ left_emu > segments[k][2])

\* Line 97: any(not (right_emu <= seg_left or left_emu >= seg_right) ...)
overlap(segments, left_emu, right_emu) ==
    \E k \in 1..Len(segments) :
        ~(right_emu <= segments[k][1] \/ left_emu >= segments[k][2])

\* Mutation: every box opens a row of its own
FirstFit_always_new_row(segs, left_emu, right_emu) == Len(segs)

\* Lines 95-104: index (from 0) of the first row without overlap, or a new row
FirstFit(segs, left_emu, right_emu) ==
    LET free == {idx \in 1..Len(segs) : ~overlap(segs[idx], left_emu, right_emu)}
    IN IF free # {}
       THEN (CHOOSE idx \in free : \A j \in free : idx <= j) - 1
       ELSE Len(segs)

AddSegment(segs, r_idx, left_emu, right_emu) ==
    IF r_idx < Len(segs)
    THEN [segs EXCEPT ![r_idx + 1] = Append(@, <<left_emu, right_emu>>)]
    ELSE Append(segs, <<<<left_emu, right_emu>>>>)

\* Mutation: the sort key is start_dt alone
KeyLess_start_only(a, b) == DtLess(a.start_dt, b.start_dt)

\* Mutation: the change number does not break ties
KeyLess_no_id(a, b) ==
    \/ DtLess(a.start_dt, b.start_dt)
    \/ a.start_dt = b.start_dt /\ DtLess(a.end_dt, b.end_dt)

\* Line 65: sort_values(["start_dt", "end_dt", "Numero"], kind="stable")
KeyLess(a, b) ==
    \/ DtLess(a.start_dt, b.start_dt)
    \/ a.start_dt = b.start_dt /\ DtLess(a.end_dt, b.end_dt)
    \/ a.start_dt = b.start_dt /\ a.end_dt = b.end_dt /\ a.id < b.id

RECURSIVE InsertSorted(_, _)
InsertSorted(sorted, row) ==
    IF sorted = <<>> THEN <<row>>
    ELSE IF KeyLess(row, Head(sorted))
         THEN <<row>> \o sorted
         ELSE <<Head(sorted)>> \o InsertSorted(Tail(sorted), row)

RECURSIVE sort_values(_)
sort_values(rows) ==
    IF rows = <<>> THEN <<>>
    ELSE InsertSorted(sort_values(SubSeq(rows, 1, Len(rows) - 1)), rows[Len(rows)])

\* Lines 67-104 for one row: geometry, row choice, bookkeeping
PlaceStep(st, row, mnext, snext) ==
    LET box == BoxOf(row, mnext, snext)
        r_idx == FirstFit(st.segs, box.left_emu, box.right_emu)
    IN [segs |-> AddSegment(st.segs, r_idx, box.left_emu, box.right_emu),
        out |-> Append(st.out, box @@ [row |-> r_idx])]

RECURSIVE PlaceAll(_, _, _, _)
PlaceAll(st, rows, mnext, snext) ==
    IF rows = <<>> THEN st
    ELSE PlaceAll(PlaceStep(st, Head(rows), mnext, snext), Tail(rows), mnext, snext)

\* The boxes build_timeline_slide draws for week_df, in drawing order
build_timeline_slide(wdf, mnext, snext) ==
    PlaceAll([segs |-> <<>>, out |-> <<>>], sort_values(wdf), mnext, snext).out

\* ------------------------------------------- services.py, data_loader.py
Range(seq) == {seq[k] : k \in 1..Len(seq)}

REQUIRED_COLS ==
    <<"Numéro", "Type", "Etat", "Date de début planifiée",
      "Date de fin planifiée">>

\* services._norm_label on the column labels of the model
_norm_label(label) ==
    CASE label = "Numéro" -> "numero"
      [] label = "numero" -> "numero"
      [] label = "NUMERO" -> "numero"
      [] label = "Type" -> "type"
      [] label = "Etat" -> "etat"
      [] label = "Date de début planifiée" -> "date de debut planifiee"
      [] label = "date_de_debut_planifiee" -> "date de debut planifiee"
      [] label = "Date de fin planifiée" -> "date de fin planifiee"
      [] label = "Balises" -> "balises"
      [] OTHER -> label

\* canon_map.get(key): the canonical label of a normalised key, "" for None
canon_map(key) ==
    CASE key = "numero" -> "Numéro"
      [] key = "type" -> "Type"
      [] key = "etat" -> "Etat"
      [] key = "date de debut planifiee" -> "Date de début planifiée"
      [] key = "date de fin planifiee" -> "Date de fin planifiée"
      [] key = "balises" -> "Balises"
      [] OTHER -> ""

\* The label a column carries after services._harmonize_columns
renamed(col, existing_targets) ==
    LET target == canon_map(_norm_label(col))
    IN IF target # "" /\ col # target /\ target \notin existing_targets
       THEN target ELSE col

\* df.rename(columns=renames) on the list of column labels; existing_targets
\* is the set of labels before any renaming
_harmonize_columns(cols) ==
    [k \in 1..Len(cols) |-> renamed(cols[k], Range(cols))]

\* Mutation: only the first missing column is reported
missing_cols_first_only(cols) ==
    LET all == SelectSeq(REQUIRED_COLS, LAMBDA c : c \notin Range(cols))
    IN IF all = <<>> THEN <<>> ELSE <<all[1]>>

\* missing = [c for c in REQUIRED_COLS if c not in df.columns]
missing_cols(cols) ==
    SelectSeq(REQUIRED_COLS, LAMBDA c : c \notin Range(cols))

NaT == [ord |-> 0 - 1, sec |-> 0, us |-> 0]

(***************************************************************************)
(* data_loader.parse_fr_date.  A cell is described by the way its text is  *)
(* read: "strptime" matches one of the eleven formats, "to_datetime" is    *)
(* read only by pd.to_datetime (e.g. "15 Sep 2025 09:00"), "null" is an    *)
(* empty or missing value ("" or NaN, whose text is "nan"), which          *)
(* pd.to_datetime reads as NaT without raising, and "garbage" is rejected  *)
(* by both.  The result is the value returned, or a raise.                 *)
(***************************************************************************)
parse_fr_date(cell) ==
    CASE cell.kind = "strptime" -> [raised |-> FALSE, value |-> cell.dt]
      [] cell.kind = "to_datetime" -> [raised |-> FALSE, value |-> cell.dt]
      [] cell.kind = "null" -> [raised |-> FALSE, value |-> NaT]
      [] OTHER -> [raised |-> TRUE, value |-> NaT]

\* A comparison with NaT is False
mask_with_nat(row, mnext, snext) ==
    /\ row.start_dt # NaT /\ row.end_dt # NaT
    /\ filter_mask(row, mnext, snext)

\* Mutation: --list-layouts does not return before the save
after_template_no_return(list_layouts) ==
    IF list_layouts THEN "save" ELSE "timeline"

\* generate_cab_pptx.main lines 669-677: what follows Presentation(template)
after_template(list_layouts) ==
    IF list_layouts THEN "exit" ELSE "timeline"

\* ------------------------------------- generate_cab_pptx.py, closure codes
(***************************************************************************)
(* A string is a sequence of characters.  Accented characters are written *)
(* by name: "e-acute", "e-grave", "E-acute", and "combining-acute" for    *)
(* the combining acute accent U+0301 (category Mn).                        *)
(***************************************************************************)
Contains(t, w) ==
    \E i \in 1..(Len(t) - Len(w) + 1) : SubSeq(t, i, i + Len(w) - 1) = w

\* The letters of the model as pairs <<lowercase, uppercase>>
CasePairs ==
    { <<"a", "A">>, <<"b", "B">>, <<"c", "C">>, <<"d", "D">>, <<"e",
      "E">>, <<"f", "F">>, <<"g", "G">>, <<"h", "H">>, <<"i", "I">>,
      <<"j", "J">>, <<"k", "K">>, <<"l", "L">>, <<"m", "M">>, <<"n",
      "N">>, <<"o", "O">>, <<"p", "P">>, <<"q", "Q">>, <<"r", "R">>,
      <<"s", "S">>, <<"t", "T">>, <<"u", "U">>, <<"v", "V">>, <<"w",
      "W">>, <<"x", "X">>, <<"y", "Y">>, <<"z", "Z">>,
      <<"e-acute", "E-acute">>, <<"e-grave", "E-grave">> }

\* str.lower() on one character ("dotless-i", U+0131, is lowercase already)
LowerChar(c) ==
    IF \E p \in CasePairs : p[2] = c
    THEN (CHOOSE p \in CasePairs : p[2] = c)[1]
    ELSE c

lower(str) == [k \in 1..Len(str) |-> LowerChar(str[k])]

IsSpace(c) == c = " "

\* str.strip()
RECURSIVE lstrip(_)
lstrip(str) ==
    IF str # <<>> /\ IsSpace(Head(str)) THEN lstrip(Tail(str)) ELSE str

RECURSIVE rstrip(_)
rstrip(str) ==
    IF str # <<>> /\ IsSpace(str[Len(str)])
    THEN rstrip(SubSeq(str, 1, Len(str) - 1))
    ELSE str

strip(str) == rstrip(lstrip(str))

\* unicodedata.normalize('NFD', c) without the characters of category Mn
DecomposeDropMn(c) ==
    CASE c = "e-acute" -> <<"e">>
      [] c = "e-grave" -> <<"e">>
      [] c = "E-acute" -> <<"E">>
      [] c = "E-grave" -> <<"E">>
      [] c = "combining-acute" -> <<>>
      [] OTHER -> <<c>>

RECURSIVE strip_accents(_)
strip_accents(str) ==
    IF str = <<>> THEN <<>>
    ELSE DecomposeDropMn(Head(str)) \o strip_accents(Tail(str))

K_succes == <<"s", "u", "c", "c", "e", "s">>
K_reussi == <<"r", "e", "u", "s", "s", "i">>
K_reussi_acc == <<"r", "e-acute", "u", "s", "s", "i">>
K_diffic == <<"d", "i", "f", "f", "i", "c">>
K_partiel == <<"p", "a", "r", "t", "i", "e", "l">>
K_partial == <<"p", "a", "r", "t", "i", "a", "l">>
K_echec == <<"e", "c", "h", "e", "c">>
K_echec_acc == <<"e-acute", "c", "h", "e", "c">>
K_fail == <<"f", "a", "i", "l">>
K_retour == <<"r", "e", "t", "o", "u", "r">>
K_rollback == <<"r", "o", "l", "l", "b", "a", "c", "k">>
K_sans == <<"s", "a", "n", "s">>
K_retour_arriere ==
    K_retour \o <<" ", "a", "r", "r", "i", "e", "r", "e">>
K_retour_arriere_acc ==
    K_retour \o <<" ", "a", "r", "r", "i", "e-grave", "r", "e">>

\* Mutation: a bare 'retour' counts as a rollback mention
rollback_only_bare_retour(t, code) ==
    IF Contains(t, K_rollback) \/ Contains(t, K_retour)
    THEN "echec_avec_retour" ELSE ""

\* Lines 151-154: rollback mention without failure keyword, else ''
rollback_only(t, code) ==
    IF \/ Contains(t, K_rollback)
       \/ Contains(t, K_retour_arriere)
       \/ Contains(lower(code), K_retour_arriere_acc)
    THEN "echec_avec_retour" ELSE ""

\* Lines 143-150: the failure branch
failure_bucket(t) ==
    IF Contains(t, K_retour) \/ Contains(t, K_rollback)
    THEN IF Contains(t, K_sans) /\ (Contains(t, K_retour) \/ Contains(t, K_rollback))
         THEN "echec_sans_retour"
         ELSE "echec_avec_retour"
    ELSE "echec_sans_retour"

\* Mutation: the lowercase step is left out
_norm_text_no_lower(str) == strip_accents(strip(str))

_norm_text(str) == strip_accents(lower(strip(str)))

\* Mutation: the partial bucket is tested before the success bucket
classify_closure_partial_first(code) ==
    LET t == _norm_text(code)
    IN IF t = <<>> THEN ""
       ELSE IF Contains(t, K_partiel) \/ Contains(t, K_partial)
            THEN "partiel"
       ELSE IF \/ Contains(t, K_succes) \/ Contains(t, K_reussi)
               \/ Contains(lower(code), K_reussi_acc)
            THEN IF Contains(t, K_diffic) THEN "succes_difficulte" ELSE "succes"
       ELSE IF \/ Contains(t, K_echec) \/ Contains(lower(code), K_echec_acc)
               \/ Contains(t, K_fail)
            THEN failure_bucket(t)
       ELSE rollback_only(t, code)

classify_closure(code) ==
    LET t == _norm_text(code)
    IN IF t = <<>> THEN ""
       ELSE IF \/ Contains(t, K_succes) \/ Contains(t, K_reussi)
               \/ Contains(lower(code), K_reussi_acc)
            THEN IF Contains(t, K_diffic) THEN "succes_difficulte" ELSE "succes"
       ELSE IF Contains(t, K_partiel) \/ Contains(t, K_partial)
            THEN "partiel"
       ELSE IF \/ Contains(t, K_echec) \/ Contains(lower(code), K_echec_acc)
               \/ Contains(t, K_fail)
            THEN failure_bucket(t)
       ELSE rollback_only(t, code)

\* ---------------------------------------------------------------- layouts.py
Max(a, b) == IF a >= b THEN a ELSE b

Min(a, b) == IF a <= b THEN a ELSE b

\* Mutation: a negative index is not raised to 0
clamp_index_no_lower(layout_index, total) == Min(layout_index, total - 1)

\* idx = max(0, min(layout_index, total - 1))
clamp_index(layout_index, total) == Max(0, Min(layout_index, total - 1))

\* any(k in name for k in name_candidates) on the layout names of the model
name_is_candidate(name) ==
    name \in {"Blank", "Titre seul"}

\* The first layout whose name matches a candidate, 0 when there is none
first_candidate(layouts) ==
    LET hits == { i \in 1..Len(layouts) : name_is_candidate(layouts[i].name) }
    IN IF hits = {} THEN 0
       ELSE CHOOSE i \in hits : \A j \in hits : i <= j

\* min(range(total), key=placeholder_count): the first layout with the
\* fewest placeholders
fewest_placeholders(layouts) ==
    CHOOSE i \in 1..Len(layouts) :
        \A j \in 1..Len(layouts) :
            \/ layouts[i].placeholders < layouts[j].placeholders
            \/ layouts[i].placeholders = layouts[j].placeholders /\ i <= j

\* The 0-based index of the returned layout, the warning printed, or a raise
choose_detail_layout(layouts, layout_index) ==
    LET total == Len(layouts)
    IN IF total = 0
       THEN [raised |-> TRUE, idx |-> 0, warned |-> FALSE]
       ELSE IF layout_index.given
       THEN LET idx == clamp_index(layout_index.value, total)
            IN [raised |-> FALSE, idx |-> idx,
                warned |-> idx # layout_index.value]
       ELSE IF first_candidate(layouts) # 0
       THEN [raised |-> FALSE, idx |-> first_candidate(layouts) - 1,
             warned |-> FALSE]
       ELSE [raised |-> FALSE, idx |-> fewest_placeholders(layouts) - 1,
             warned |-> FALSE]

\* ----------------------------------------------------------- render/utils.py
\* The value of a hexadecimal digit, 16 for any other character
HexValue(c) ==
    CASE c = "0" -> 0 [] c = "1" -> 1 [] c = "2" -> 2 [] c = "3" -> 3
      [] c = "4" -> 4 [] c = "5" -> 5 [] c = "6" -> 6 [] c = "7" -> 7
      [] c = "8" -> 8 [] c = "9" -> 9
      [] c \in {"a", "A"} -> 10 [] c \in {"b", "B"} -> 11
      [] c \in {"c", "C"} -> 12 [] c \in {"d", "D"} -> 13
      [] c \in {"e", "E"} -> 14 [] c \in {"f", "F"} -> 15
      [] OTHER -> 16

RECURSIVE HexNumber(_)
HexNumber(digits) ==
    IF digits = <<>> THEN 0
    ELSE 16 * HexNumber(SubSeq(digits, 1, Len(digits) - 1))
         + HexValue(digits[Len(digits)])

\* Python int(text, 16) on a slice of two characters: surrounding
\* whitespace is dropped and one sign is accepted before the digits
int_base16(text) ==
    LET t == strip(text)
        signed == t # <<>> /\ t[1] \in {"+", "-"}
        digits == IF signed THEN Tail(t) ELSE t
        valid == digits # <<>> /\ \A k \in 1..Len(digits) : HexValue(digits[k]) < 16
    IN IF ~valid THEN [raised |-> TRUE, value |-> 0]
       ELSE [raised |-> FALSE,
             value |-> IF signed /\ t[1] = "-" THEN 0 - HexNumber(digits)
                       ELSE HexNumber(digits)]

\* str.lstrip('#')
RECURSIVE lstrip_hash(_)
lstrip_hash(str) ==
    IF str # <<>> /\ Head(str) = "#" THEN lstrip_hash(Tail(str)) ELSE str

\* pptx RGBColor(r, g, b) raises ValueError unless each value is in 0..255
RGBColor_raises(r, g, b) ==
    \E v \in {r, g, b} : v < 0 \/ v > 255

\* The result is "color", "None" or "raise" (a ValueError of RGBColor,
\* which is constructed outside the try block)
_parse_hex_color(value) ==
    LET text == lstrip_hash(strip(value))
    IN IF Len(text) # 6 THEN [result |-> "None", rgb |-> <<0, 0, 0>>]
       ELSE LET r == int_base16(SubSeq(text, 1, 2))
                g == int_base16(SubSeq(text, 3, 4))
                b == int_base16(SubSeq(text, 5, 6))
            IN IF r.raised \/ g.raised \/ b.raised
               THEN [result |-> "None", rgb |-> <<0, 0, 0>>]
               ELSE IF RGBColor_raises(r.value, g.value, b.value)
               THEN [result |-> "raise", rgb |-> <<0, 0, 0>>]
               ELSE [result |-> "color", rgb |-> <<r.value, g.value, b.value>>]

K_urgent == <<"u", "r", "g", "e", "n", "t">>
K_normal == <<"n", "o", "r", "m", "a", "l">>
K_agile == <<"a", "g", "i", "l", "e">>

_DEFAULT_COLOR_MAP ==
    (K_urgent :> <<255, 140, 0>>) @@ (K_normal :> <<0, 102, 204>>)
        @@ (K_agile :> <<0, 153, 0>>)

\* The loop of set_timeline_color_map over overrides.items(), from the map
\* and the warnings so far
RECURSIVE apply_overrides(_, _, _)
apply_overrides(items, map, warnings) ==
    IF items = <<>>
    THEN [raised |-> FALSE, map |-> map, warnings |-> warnings]
    ELSE LET norm_key == lower(strip(Head(items).key))
             parsed == _parse_hex_color(Head(items).value)
         IN IF norm_key = <<>>
            THEN apply_overrides(Tail(items), map, warnings)
            ELSE IF parsed.result = "raise"
            THEN [raised |-> TRUE, map |-> map, warnings |-> warnings]
            ELSE IF parsed.result = "None"
            THEN apply_overrides(Tail(items), map, Append(warnings, norm_key))
            ELSE apply_overrides(Tail(items),
                                 (norm_key :> parsed.rgb) @@ map, warnings)

\* Lines 52-55: the map is reset to the defaults first; None, an empty dict
\* or a value that is not a dict ends the call there
set_timeline_color_map(type, items) ==
    IF type # "dict" \/ items = <<>>
    THEN [raised |-> FALSE, map |-> _DEFAULT_COLOR_MAP, warnings |-> <<>>]
    ELSE apply_overrides(items, _DEFAULT_COLOR_MAP, <<>>)

K_rfc == <<"{", "r", "f", "c", "}">>

\* "https://outils.change.fr/change={rfc}"
DEFAULT_RFC_URL_TEMPLATE ==
    <<"h", "t", "t", "p", "s", ":", "/", "/", "o", "u", "t", "i", "l", "s",
      ".", "c", "h", "a", "n", "g", "e", ".", "f", "r", "/", "c", "h", "a",
      "n", "g", "e", "=">> \o K_rfc

\* Mutation: any non-empty string is accepted
accepts_template_any_string(arg) == arg.type = "str" /\ arg.text # <<>>

\* Line 28: template and isinstance(template, str) and "{rfc}" in template
accepts_template(arg) ==
    arg.type = "str" /\ arg.text # <<>> /\ Contains(arg.text, K_rfc)

set_rfc_url_template(current, arg) ==
    IF accepts_template(arg) THEN arg.text ELSE current

\* ----------------------------------- services.py, build_base_presentation
\* A missing Type cell, before fillna('')
NaN == <<"NaN">>

fillna(cell) == IF cell = NaN THEN <<>> ELSE cell

_norm(str) == strip_accents(lower(strip(str)))

\* week_df['Type'].fillna('').astype(str).map(_norm)
type_series(week) == [k \in 1..Len(week) |-> _norm(fillna(week[k].Type))]

K_pour_information ==
    <<"p", "o", "u", "r", " ", "i", "n", "f", "o", "r", "m", "a", "t", "i", "o", "n">>
K_information == <<"i", "n", "f", "o", "r", "m", "a", "t", "i", "o", "n">>
K_info == <<"i", "n", "f", "o">>

info_labels == {K_pour_information, K_information, K_info}

\* week_df.loc[mask]: the index labels of the rows the mask keeps, in order
RECURSIVE loc_from(_, _, _)
loc_from(week, labels, k) ==
    IF k > Len(week) THEN <<>>
    ELSE (IF type_series(week)[k] \in labels THEN <<k>> ELSE <<>>)
         \o loc_from(week, labels, k + 1)

loc(week, labels) == loc_from(week, labels, 1)

df_urgent(week) == loc(week, {K_urgent})
df_normal(week) == loc(week, {K_normal})
df_agile(week) == loc(week, {K_agile})
df_info(week) == loc(week, info_labels)

_type_priority(norm_label) ==
    IF norm_label = K_urgent THEN 0
    ELSE IF norm_label = K_normal THEN 1
    ELSE IF norm_label = K_agile THEN 2
    ELSE IF norm_label \in info_labels THEN 3
    ELSE 4

\* sort_values(["_type_order", "start_dt", "Numéro"], kind="stable")
DetailKeyLess(week, a, b) ==
    LET ta == _type_priority(type_series(week)[a])
        tb == _type_priority(type_series(week)[b])
    IN \/ ta < tb
       \/ ta = tb /\ week[a].start_dt < week[b].start_dt
       \/ ta = tb /\ week[a].start_dt = week[b].start_dt
          /\ week[a].id < week[b].id
       \/ ta = tb /\ week[a].start_dt = week[b].start_dt
          /\ week[a].id = week[b].id /\ a < b

detail_order(week) ==
    LET rank(k) == 1 + Cardinality({j \in 1..Len(week) : DetailKeyLess(week, j, k)})
    IN [p \in 1..Len(week) |-> CHOOSE k \in 1..Len(week) : rank(k) = p]

TimelineSlide(title, rows) == [kind |-> "timeline", title |-> title, rows |-> rows]

TemplateSlide == [kind |-> "template", title |-> "", rows |-> <<>>]

\* The four build_timeline_slide calls of either branch
timeline_slides(week) ==
    <<TimelineSlide("Urgent", df_urgent(week)),
      TimelineSlide("Normal", df_normal(week)),
      TimelineSlide("Agile", df_agile(week)),
      TimelineSlide("Pour information", df_info(week))>>

build_base_presentation(template, week, splus1) ==
    LET first == IF splus1 = "None" THEN Tail(template) ELSE template
        chart == [kind |-> "chart", title |-> "répartition par affecté",
                  rows |-> [k \in 1..Len(week) |-> k]]
        details == [p \in 1..Len(week) |->
                      [kind |-> "detail", title |-> "",
                       rows |-> <<detail_order(week)[p]>>]]
    IN first \o timeline_slides(week) \o <<chart>> \o details

\* ------------------------------------------------------------------ inputs
TypeCells ==
    { <<"U", "r", "g", "e", "n", "t">>,
      <<" ", "N", "O", "R", "M", "A", "L", " ">>,
      <<"A", "g", "i", "l", "e">>,
      <<"I", "n", "f", "o">>,
      <<"S", "t", "a", "n", "d", "a", "r", "d">>,
      <<>>,
      NaN }

TypedRows == [id : 1..2, start_dt : 1..2, Type : TypeCells]

TypedWeeks == UNION { [1..n -> TypedRows] : n \in 0..MaxEvents }

\* Slide layouts of a template: name and number of placeholders
Layouts ==
    { [name |-> n, placeholders |-> p] :
        n \in {"Blank", "Titre seul", "Title Slide"}, p \in 0..1 }

Templates == UNION { [1..n -> Layouts] : n \in 0..MaxLayouts }

\* --detail-layout-index: absent, or any integer around the valid range
LayoutIndexes ==
    { [given |-> FALSE, value |-> 0] }
    \cup { [given |-> TRUE, value |-> v] :
             v \in (0 - MaxLayouts - 1)..(MaxLayouts + 1) }

\* Pieces of URL templates; "{rf" followed by "c}" makes a placeholder
RfcParts ==
    { <<"u", "/">>, K_rfc, <<"{", "r", "f">>, <<"c", "}">>, <<"{", "}">>,
      <<"?", "i", "d", "=">> }

RECURSIVE Concat(_)
Concat(parts) ==
    IF parts = <<>> THEN <<>> ELSE Head(parts) \o Concat(Tail(parts))

\* Arguments of set_rfc_url_template: strings of at most MaxParts pieces,
\* None, a number, and a list holding a valid template
RfcArgs ==
    { [type |-> "str", text |-> Concat(ps)] :
        ps \in UNION { [1..n -> RfcParts] : n \in 0..MaxParts } }
    \cup { [type |-> "None", text |-> <<>>],
           [type |-> "int", text |-> <<"5">>],
           [type |-> "list", text |-> K_rfc] }

\* Keys and values of a colour configuration
OverrideKeys ==
    { K_urgent, <<" ", "U", "r", "g", "e", "n", "t">>,
      <<"c", "u", "s", "t", "o", "m">>, <<" ">> }

OverrideValues ==
    { <<"#", "F", "F", "8", "8", "0", "0">>,
      <<"f", "f", "8", "8", "0", "0">>,
      <<" ", "#", "#", "0", "0", "8", "8", "f", "f", " ">>,
      <<"#", "F", "F", "8", "8">>,
      <<"#", "G", "G", "8", "8", "0", "0">>,
      <<"r", "e", "d">>,
      <<"#", "+", "F", "8", "8", "0", "0">>,
      <<"#", "F", "F", " ", "8", "0", "0">>,
      <<"-", "1", "F", "F", "0", "0">>,
      <<>> }

\* overrides.items(): at most MaxOverrides entries with distinct keys
OverrideDicts ==
    UNION { { f \in [1..n -> [key : OverrideKeys, value : OverrideValues]] :
                \A a, b \in 1..n : a # b => f[a].key # f[b].key }
            : n \in 0..MaxOverrides }

\* Arguments of successive calls of set_timeline_color_map: a dict of at
\* most MaxOverrides entries, None, or a value that is not a dict
CallKeys ==
    { K_urgent, K_normal, <<" ", "U", "r", "g", "e", "n", "t">>,
      <<"c", "u", "s", "t", "o", "m">> }

CallValues ==
    { <<"#", "F", "F", "8", "8", "0", "0">>,
      <<"0", "0", "8", "8", "f", "f">>,
      <<"r", "e", "d">>,
      <<"-", "1", "F", "F", "0", "0">> }

CallArgs ==
    { [type |-> "dict", items |-> f] :
        f \in UNION { { g \in [1..n -> [key : CallKeys, value : CallValues]] :
                          \A a, b \in 1..n : a # b => g[a].key # g[b].key }
                      : n \in 0..MaxOverrides } }
    \cup { [type |-> "None", items |-> <<>>], [type |-> "str", items |-> <<>>] }

\* Words of closure labels as they occur in exports
Vocabulary ==
    { <<"S", "u", "c", "c", "e-grave", "s">>,
      <<"d", "i", "f", "f", "i", "c", "i", "l", "e">>,
      <<"p", "a", "r", "t", "i", "e", "l">>,
      <<"E-acute", "c", "h", "e", "c">>,
      <<"s", "a", "n", "s">>,
      <<"R", "e", "t", "o", "u", "r">>,
      <<"a", "r", "r", "i", "e-grave", "r", "e">>,
      <<"r", "o", "l", "l", "b", "a", "c", "k">>,
      <<"R", "e-acute", "u", "s", "s", "i">>,
      <<"e", "combining-acute", "c", "h", "e", "c">>,
      <<"p", "a", "r", "t", "dotless-i", "e", "l">>,
      <<"o", "k">> }

RECURSIVE JoinWords(_)
JoinWords(ws) ==
    IF ws = <<>> THEN <<>>
    ELSE IF Len(ws) = 1 THEN ws[1]
    ELSE ws[1] \o <<" ">> \o JoinWords(Tail(ws))

\* Labels of at most MaxWords words, bare or padded with whitespace
Labels ==
    UNION { { pad \o JoinWords(ws) \o pad : ws \in [1..n -> Vocabulary],
                                            pad \in {<<>>, <<" ">>} }
            : n \in 0..MaxWords }

\* Column labels of an export: canonical ones, two spelling variants and
\* one column the generator does not know
ColumnOrder ==
    <<"numero", "Numéro", "NUMERO", "Type", "Etat", "Foo",
      "date_de_debut_planifiee", "Date de début planifiée",
      "Date de fin planifiée">>

\* The header of a file: any choice of these labels, in that order
ColumnLists ==
    { SelectSeq(ColumnOrder, LAMBDA c : c \in chosen) :
        chosen \in SUBSET Range(ColumnOrder) }

DateCells ==
    { [kind |-> "strptime", dt |-> DT(2025, 9, 15, 9, 0, 0, 0)],
      [kind |-> "to_datetime", dt |-> DT(2025, 9, 16, 14, 0, 0, 0)],
      [kind |-> "null", dt |-> NaT],
      [kind |-> "garbage", dt |-> NaT] }

\* The planned start and end cells of a row
CellRows ==
    { r \in { [start |-> a, end |-> b] : a, b \in DateCells } :
        r.start.kind = "strptime" \/ r.end.kind = "strptime" }

CellTables == UNION { [1..n -> CellRows] : n \in 0..MaxEvents }

RefDates ==
    { DT(2025, 9, 9, 0, 0, 0, 0),             \* Tuesday, --ref-date 2025-09-09
      DT(2025, 9, 8, 0, 0, 0, 0),             \* a Monday at midnight
      DT(2025, 9, 14, 23, 59, 59, 999999),    \* last instant of that week
      DT(2025, 9, 7, 15, 30, 0, 0),           \* Sunday of the week before
      DT(2025, 9, 21, 15, 30, 0, 0),          \* Sunday of the week after
      DT(2024, 12, 31, 12, 0, 0, 0) }         \* a week that spans two years

Intervals ==
    { <<DT(2025, 9, 15, 9, 0, 0, 0),  DT(2025, 9, 15, 11, 0, 0, 0)>>,
      <<DT(2025, 9, 15, 10, 0, 0, 0), DT(2025, 9, 15, 10, 0, 0, 0)>>,
      <<DT(2025, 9, 15, 10, 0, 0, 0), DT(2025, 9, 15, 9, 0, 0, 0)>>,
      <<DT(2025, 9, 21, 20, 0, 0, 0), DT(2025, 9, 22, 2, 0, 0, 0)>>,
      <<DT(2025, 9, 14, 22, 0, 0, 0), DT(2025, 9, 15, 0, 0, 0, 0)>>,
      <<DT(2025, 9, 16, 12, 0, 0, 0), DT(2025, 9, 18, 12, 0, 0, 0)>>,
      <<DT(2025, 9, 18, 12, 0, 0, 0), DT(2025, 9, 18, 18, 0, 0, 0)>>,
      <<DT(2025, 9, 12, 8, 0, 0, 0),  DT(2025, 9, 16, 8, 0, 0, 0)>>,
      <<DT(2025, 9, 17, 1, 0, 0, 0),  DT(2025, 9, 16, 23, 0, 0, 0)>>,
      <<DT(2025, 9, 10, 8, 0, 0, 0),  DT(2025, 9, 11, 12, 0, 0, 0)>> }

Row(n, iv) == [id |-> n, start_dt |-> iv[1], end_dt |-> iv[2]]

\* Tables of at most MaxEvents rows; each change number (Numero) occurs once.
Dataframes ==
    UNION { { [k \in 1..n |-> Row(ids[k], ivs[k])] :
                ids \in {f \in [1..n -> 1..n] : \A a, b \in 1..n : a # b => f[a] # f[b]},
                ivs \in [1..n -> Intervals] } : n \in 0..MaxEvents }

NoDate == [ord |-> 0, sec |-> 0, us |-> 0]

\* ------------------------------------------------------------------- state
VARIABLES ref_date, df, pc, monday_next, sunday_next, monday_prev, sunday_prev,
          week_df, iter, row_segments, placed,
          code, bucket,
          run_pc, path, columns, df_columns, cells, events, run_week, error,
          built, out_written,
          slide_layouts, layout_index, layout_result,
          overrides, overrides_type, COLOR_MAP, color_result,
          RFC_URL_TEMPLATE, rfc_arg,
          base_week, splus1_layout_index, prs_slides

timeline_vars ==
    <<ref_date, df, pc, monday_next, sunday_next, monday_prev, sunday_prev,
      week_df, iter, row_segments, placed>>

closure_vars == <<code, bucket>>

run_vars ==
    <<run_pc, path, columns, df_columns, cells, events, run_week, error,
      built, out_written>>

layout_vars == <<slide_layouts, layout_index, layout_result>>

color_vars == <<overrides, overrides_type, COLOR_MAP, color_result>>

rfc_vars == <<RFC_URL_TEMPLATE, rfc_arg>>

base_vars == <<base_week, splus1_layout_index, prs_slides>>

config_vars == <<layout_vars, color_vars, rfc_vars, base_vars>>

vars == <<timeline_vars, closure_vars, run_vars, config_vars>>

\* The variables of a part of the program that the behaviour does not run
TimelineIdle ==
    /\ ref_date = NoDate /\ df = <<>> /\ pc = "idle"
    /\ monday_next = NoDate /\ sunday_next = NoDate
    /\ monday_prev = NoDate /\ sunday_prev = NoDate
    /\ week_df = <<>> /\ iter = 1 /\ row_segments = <<>> /\ placed = <<>>

ClosureIdle == code = <<>> /\ bucket = "idle"

NoError == [type |-> "none", missing |-> <<>>, present |-> <<>>]

RunIdle ==
    /\ run_pc = "idle" /\ path = "none" /\ columns = <<>> /\ df_columns = <<>>
    /\ cells = <<>> /\ events = <<>> /\ run_week = <<>> /\ error = NoError
    /\ built = {} /\ out_written = FALSE

NotCalled == [raised |-> FALSE, idx |-> 0 - 1, warned |-> FALSE]

LayoutIdle ==
    /\ slide_layouts = <<>>
    /\ layout_index = [given |-> FALSE, value |-> 0]
    /\ layout_result = NotCalled

NoWarnings == [raised |-> FALSE, called |-> FALSE, warnings |-> <<>>]

NoCall == [type |-> "no call", text |-> <<>>]

RfcIdle ==
    /\ RFC_URL_TEMPLATE = DEFAULT_RFC_URL_TEMPLATE
    /\ rfc_arg = NoCall

BaseIdle ==
    /\ base_week = <<>> /\ splus1_layout_index = "None" /\ prs_slides = <<>>

ColorIdle ==
    /\ overrides = <<>>
    /\ overrides_type = "dict"
    /\ COLOR_MAP = _DEFAULT_COLOR_MAP
    /\ color_result = NoWarnings

Init ==
    /\ ClosureIdle
    /\ RunIdle
    /\ LayoutIdle
    /\ ColorIdle
    /\ RfcIdle
    /\ BaseIdle
    /\ ref_date \in RefDates
    /\ df \in Dataframes
    /\ pc = "compute_weeks"
    /\ monday_next = NoDate /\ sunday_next = NoDate
    /\ monday_prev = NoDate /\ sunday_prev = NoDate
    /\ week_df = <<>>
    /\ iter = 1
    /\ row_segments = <<>>
    /\ placed = <<>>

ComputeWeeks ==
    /\ pc = "compute_weeks"
    /\ LET w == compute_weeks(ref_date)
       IN /\ monday_next' = w[1] /\ sunday_next' = w[2]
          /\ monday_prev' = w[3] /\ sunday_prev' = w[4]
    /\ pc' = "filter_week_df"
    /\ UNCHANGED <<ref_date, df, week_df, iter, row_segments, placed>>
    /\ UNCHANGED <<closure_vars, run_vars, config_vars>>

FilterWeek ==
    /\ pc = "filter_week_df"
    /\ week_df' = filter_week_df(df, monday_next, sunday_next)
    /\ pc' = "sort_values"
    /\ UNCHANGED <<ref_date, df, monday_next, sunday_next, monday_prev, sunday_prev,
                   iter, row_segments, placed>>
    /\ UNCHANGED <<closure_vars, run_vars, config_vars>>

\* build_timeline_slide, line 65
SortRows ==
    /\ pc = "sort_values"
    /\ week_df' = sort_values(week_df)
    /\ iter' = 1
    /\ row_segments' = <<>>
    /\ pc' = "iterrows"
    /\ UNCHANGED <<ref_date, df, monday_next, sunday_next, monday_prev, sunday_prev,
                   placed>>
    /\ UNCHANGED <<closure_vars, run_vars, config_vars>>

\* build_timeline_slide, one iteration of the loop of lines 67-109
PlaceRow ==
    /\ pc = "iterrows"
    /\ iter <= Len(week_df)
    /\ LET st == PlaceStep([segs |-> row_segments, out |-> placed],
                            week_df[iter], monday_next, sunday_next)
       IN /\ row_segments' = st.segs
          /\ placed' = st.out
    /\ iter' = iter + 1
    /\ UNCHANGED <<ref_date, df, pc, monday_next, sunday_next, monday_prev, sunday_prev,
                   week_df>>
    /\ UNCHANGED <<closure_vars, run_vars, config_vars>>

\* build_timeline_slide, loop exit
FinishSlide ==
    /\ pc = "iterrows"
    /\ iter > Len(week_df)
    /\ pc' = "done"
    /\ UNCHANGED <<ref_date, df, monday_next, sunday_next, monday_prev, sunday_prev,
                   week_df, iter, row_segments, placed>>
    /\ UNCHANGED <<closure_vars, run_vars, config_vars>>

Next == ComputeWeeks \/ FilterWeek \/ SortRows \/ PlaceRow \/ FinishSlide

Spec == Init /\ [][Next]_vars

\* ------------------------------------------- classification of one label
InitClosure ==
    /\ TimelineIdle
    /\ RunIdle
    /\ LayoutIdle
    /\ ColorIdle
    /\ RfcIdle
    /\ BaseIdle
    /\ code \in Labels
    /\ bucket = "pending"

ClassifyClosure ==
    /\ bucket = "pending"
    /\ bucket' = classify_closure(code)
    /\ UNCHANGED <<code, timeline_vars, run_vars, config_vars>>

NextClosure == ClassifyClosure

SpecClosure == InitClosure /\ [][NextClosure]_vars

\* ------------------------------------- one run: prepare_dataframe or main
HasDateColumns(cols) ==
    /\ {"Date de début planifiée", "date_de_debut_planifiee"} \cap Range(cols) # {}
    /\ "Date de fin planifiée" \in Range(cols)

Failure(type) == [type |-> type, missing |-> <<>>, present |-> <<>>]

\* The file to load: its column labels and, when it has both date columns,
\* the date cells of its rows
InitRun ==
    /\ TimelineIdle
    /\ ClosureIdle
    /\ LayoutIdle
    /\ ColorIdle
    /\ RfcIdle
    /\ BaseIdle
    /\ run_pc = "load"
    /\ path \in {"main", "services"}
    /\ columns \in ColumnLists
    /\ cells \in (IF HasDateColumns(columns) THEN CellTables ELSE {<<>>})
    /\ df_columns = <<>> /\ events = <<>> /\ run_week = <<>>
    /\ error = NoError /\ built = {} /\ out_written = FALSE

LoadDataset ==
    /\ run_pc = "load"
    /\ \E ok \in BOOLEAN :
         IF ok
         THEN /\ df_columns' = columns
              /\ run_pc' = "columns"
              /\ error' = error
         ELSE /\ df_columns' = df_columns
              /\ run_pc' = "failed"
              /\ error' = Failure("load")
    /\ UNCHANGED <<path, columns, cells, events, run_week, built, out_written>>
    /\ UNCHANGED <<timeline_vars, closure_vars, config_vars>>

RequireColumns ==
    /\ run_pc = "columns"
    /\ LET cols == IF path = "services" THEN _harmonize_columns(df_columns)
                   ELSE df_columns
           missing == missing_cols(cols)
       IN /\ df_columns' = cols
          /\ IF missing # <<>>
             THEN /\ run_pc' = "failed"
                  /\ error' = [type |-> "ValueError", missing |-> missing,
                               present |-> cols]
             ELSE /\ run_pc' = "parse"
                  /\ error' = error
    /\ UNCHANGED <<path, columns, cells, events, run_week, built, out_written>>
    /\ UNCHANGED <<timeline_vars, closure_vars, config_vars>>

ParseDates ==
    /\ run_pc = "parse"
    /\ LET starts == [k \in 1..Len(cells) |-> parse_fr_date(cells[k].start)]
           ends == [k \in 1..Len(cells) |-> parse_fr_date(cells[k].end)]
           raised == \E k \in 1..Len(cells) : starts[k].raised \/ ends[k].raised
       IN IF raised
          THEN /\ run_pc' = "failed"
               /\ error' = Failure("date")
               /\ events' = events
          ELSE /\ run_pc' = (IF path = "services" THEN "exit" ELSE "ref_date")
               /\ error' = error
               /\ events' = [k \in 1..Len(cells) |->
                               [id |-> k, start_dt |-> starts[k].value,
                                end_dt |-> ends[k].value]]
    /\ UNCHANGED <<path, columns, df_columns, cells, run_week, built, out_written>>
    /\ UNCHANGED <<timeline_vars, closure_vars, config_vars>>

ParseRefDate ==
    /\ run_pc = "ref_date"
    /\ \E ok \in BOOLEAN :
         IF ok
         THEN run_pc' = "filter" /\ error' = error
         ELSE run_pc' = "failed" /\ error' = Failure("ref_date")
    /\ UNCHANGED <<path, columns, df_columns, cells, events, run_week, built,
                   out_written>>
    /\ UNCHANGED <<timeline_vars, closure_vars, config_vars>>

FilterRows ==
    /\ run_pc = "filter"
    /\ LET w == week_bounds_splus1(DT(2025, 9, 9, 0, 0, 0, 0))
       IN run_week' = SelectSeq(events, LAMBDA r : mask_with_nat(r, w[2], w[3]))
    /\ run_pc' = "template"
    /\ UNCHANGED <<path, columns, df_columns, cells, events, error, built,
                   out_written>>
    /\ UNCHANGED <<timeline_vars, closure_vars, config_vars>>

OpenTemplate ==
    /\ run_pc = "template"
    /\ \E ok, list_layouts \in BOOLEAN :
         IF ok
         THEN run_pc' = after_template(list_layouts) /\ error' = error
         ELSE run_pc' = "failed" /\ error' = Failure("template")
    /\ UNCHANGED <<path, columns, df_columns, cells, events, run_week, built,
                   out_written>>
    /\ UNCHANGED <<timeline_vars, closure_vars, config_vars>>

BuildTimeline ==
    /\ run_pc = "timeline"
    /\ \E ok \in BOOLEAN :
         IF ok
         THEN /\ run_pc' = "details" /\ error' = error
              /\ built' = built \cup {"timeline"}
         ELSE /\ run_pc' = "failed" /\ error' = Failure("slides")
              /\ built' = built
    /\ UNCHANGED <<path, columns, df_columns, cells, events, run_week, out_written>>
    /\ UNCHANGED <<timeline_vars, closure_vars, config_vars>>

AddDetailSlides ==
    /\ run_pc = "details"
    /\ \E ok \in BOOLEAN :
         IF ok
         THEN /\ run_pc' = "sminus1" /\ error' = error
              /\ built' = built \cup {"details"}
         ELSE /\ run_pc' = "failed" /\ error' = Failure("slides")
              /\ built' = built
    /\ UNCHANGED <<path, columns, df_columns, cells, events, run_week, out_written>>
    /\ UNCHANGED <<timeline_vars, closure_vars, config_vars>>

AddSminus1Slides ==
    /\ run_pc = "sminus1"
    /\ \E sminus1_pie, ok \in BOOLEAN :
         IF ~sminus1_pie
         THEN run_pc' = "save" /\ error' = error /\ built' = built
         ELSE IF ok
         THEN /\ run_pc' = "save" /\ error' = error
              /\ built' = built \cup {"sminus1"}
         ELSE /\ run_pc' = "failed" /\ error' = Failure("slides")
              /\ built' = built
    /\ UNCHANGED <<path, columns, df_columns, cells, events, run_week, out_written>>
    /\ UNCHANGED <<timeline_vars, closure_vars, config_vars>>

\* prs.save(args.out); a save that raises may have touched the file
Save ==
    /\ run_pc = "save"
    /\ \E ok \in BOOLEAN :
         IF ok
         THEN run_pc' = "exit" /\ error' = error /\ out_written' = TRUE
         ELSE /\ run_pc' = "failed" /\ error' = Failure("save")
              /\ out_written' \in BOOLEAN
    /\ UNCHANGED <<path, columns, df_columns, cells, events, run_week, built>>
    /\ UNCHANGED <<timeline_vars, closure_vars, config_vars>>

NextRun ==
    \/ LoadDataset \/ RequireColumns \/ ParseDates \/ ParseRefDate
    \/ FilterRows \/ OpenTemplate \/ BuildTimeline \/ AddDetailSlides
    \/ AddSminus1Slides \/ Save

SpecRun == InitRun /\ [][NextRun]_vars

\* ------------------------------------------ one call of choose_detail_layout
InitLayout ==
    /\ TimelineIdle
    /\ ClosureIdle
    /\ RunIdle
    /\ ColorIdle
    /\ RfcIdle
    /\ BaseIdle
    /\ slide_layouts \in Templates
    /\ layout_index \in LayoutIndexes
    /\ layout_result = NotCalled

ChooseDetailLayout ==
    /\ layout_result = NotCalled
    /\ layout_result' = choose_detail_layout(slide_layouts, layout_index)
    /\ UNCHANGED <<slide_layouts, layout_index>>
    /\ UNCHANGED <<timeline_vars, closure_vars, run_vars, color_vars, rfc_vars, base_vars>>

NextLayout == ChooseDetailLayout

SpecLayout == InitLayout /\ [][NextLayout]_vars

\* --------------------------------------- one call of set_timeline_color_map
InitColors ==
    /\ TimelineIdle
    /\ ClosureIdle
    /\ RunIdle
    /\ LayoutIdle
    /\ RfcIdle
    /\ BaseIdle
    /\ overrides \in OverrideDicts
    /\ overrides_type = "dict"
    /\ COLOR_MAP = _DEFAULT_COLOR_MAP
    /\ color_result = NoWarnings

SetTimelineColorMap ==
    /\ ~color_result.called
    /\ LET out == set_timeline_color_map(overrides_type, overrides)
       IN /\ COLOR_MAP' = out.map
          /\ color_result' = [raised |-> out.raised, called |-> TRUE,
                              warnings |-> out.warnings]
    /\ UNCHANGED <<overrides, overrides_type>>
    /\ UNCHANGED <<timeline_vars, closure_vars, run_vars, layout_vars, rfc_vars, base_vars>>

NextColors == SetTimelineColorMap

SpecColors == InitColors /\ [][NextColors]_vars

\* --------------------------------- any sequence of set_timeline_color_map
InitColorCalls ==
    /\ TimelineIdle
    /\ ClosureIdle
    /\ RunIdle
    /\ LayoutIdle
    /\ RfcIdle
    /\ BaseIdle
    /\ ColorIdle

CallSetTimelineColorMap ==
    /\ \E arg \in CallArgs :
         LET out == set_timeline_color_map(arg.type, arg.items)
         IN /\ overrides' = arg.items
            /\ overrides_type' = arg.type
            /\ COLOR_MAP' = out.map
            /\ color_result' = [raised |-> out.raised, called |-> TRUE,
                                warnings |-> out.warnings]
    /\ UNCHANGED <<timeline_vars, closure_vars, run_vars, layout_vars, rfc_vars, base_vars>>

NextColorCalls == CallSetTimelineColorMap

SpecColorCalls == InitColorCalls /\ [][NextColorCalls]_vars

\* ------------------------------------ any sequence of set_rfc_url_template
InitRfc ==
    /\ TimelineIdle
    /\ ClosureIdle
    /\ RunIdle
    /\ LayoutIdle
    /\ ColorIdle
    /\ RfcIdle
    /\ BaseIdle

SetRfcUrlTemplate ==
    /\ \E arg \in RfcArgs :
         /\ rfc_arg' = arg
         /\ RFC_URL_TEMPLATE' = set_rfc_url_template(RFC_URL_TEMPLATE, arg)
    /\ UNCHANGED <<timeline_vars, closure_vars, run_vars, layout_vars, color_vars, base_vars>>

NextRfc == SetRfcUrlTemplate

SpecRfc == InitRfc /\ [][NextRfc]_vars

\* ------------------------------------- one call of build_base_presentation
InitBase ==
    /\ TimelineIdle
    /\ ClosureIdle
    /\ RunIdle
    /\ LayoutIdle
    /\ ColorIdle
    /\ RfcIdle
    /\ base_week \in TypedWeeks
    /\ splus1_layout_index \in {"None", "0"}
    /\ prs_slides = <<>>

BuildBasePresentation ==
    /\ prs_slides = <<>>
    /\ prs_slides' = build_base_presentation(<<TemplateSlide>>, base_week,
                                             splus1_layout_index)
    /\ UNCHANGED <<base_week, splus1_layout_index>>
    /\ UNCHANGED <<timeline_vars, closure_vars, run_vars, layout_vars,
                   color_vars, rfc_vars>>

NextBase == BuildBasePresentation

SpecBase == InitBase /\ [][NextBase]_vars

\* ------------------------------------------------------------ properties
PermsOf(seq) ==
    {[k \in 1..Len(seq) |-> seq[f[k]]] : f \in Permutations(1..Len(seq))}

RowsAndExtents(boxes) ==
    {<<boxes[k].id, boxes[k].row, boxes[k].left_emu, boxes[k].right_emu>> :
        k \in 1..Len(boxes)}

HalfOpenOverlap(a, b) == a.left_emu < b.right_emu /\ b.left_emu < a.right_emu

\* C1: no two boxes placed in the same row have overlapping extents
\* [left_emu, right_emu) (taken after the minimum-width expansion), and two
\* events with identical start and end are placed in different rows.
C1_NoOverlapInRow ==
    \A a, b \in 1..Len(placed) :
        a # b =>
            /\ placed[a].row = placed[b].row => ~HalfOpenOverlap(placed[a], placed[b])
            /\ (placed[a].raw_start = placed[b].raw_start
                /\ placed[a].raw_end = placed[b].raw_end)
               => placed[a].row # placed[b].row

C1_Witness ==
    /\ pc = "done"
    /\ \E a, b \in 1..Len(placed) :
        /\ a # b
        /\ placed[a].raw_start = DT(2025, 9, 15, 9, 0, 0, 0)
        /\ placed[b].raw_start = DT(2025, 9, 15, 9, 0, 0, 0)
        /\ placed[a].raw_end = DT(2025, 9, 15, 11, 0, 0, 0)
        /\ placed[b].raw_end = DT(2025, 9, 15, 11, 0, 0, 0)
        /\ placed[a].row = 0 /\ placed[b].row = 1

\* C2: every placed box is at least MIN_BOX_WIDTH_CM wide, zero-duration
\* events included: both the width handed to the shape and the stored
\* extent right_emu - left_emu are >= Cm(MIN_BOX_WIDTH_CM).
C2_MinWidth ==
    \A k \in 1..Len(placed) :
        /\ ~FxLess(placed[k].width, FxInt(MinBoxWidth))
        /\ placed[k].right_emu - placed[k].left_emu >= MinBoxWidth

C2_Witness ==
    /\ pc = "done"
    /\ \E k \in 1..Len(placed) :
        /\ placed[k].raw_start = placed[k].raw_end
        /\ placed[k].start_dt = placed[k].raw_start
        /\ placed[k].right_emu - placed[k].left_emu = MinBoxWidth

\* C3: the result does not depend on the order of the rows of week_df: every
\* permutation of the same rows gives every event the same row and the same
\* horizontal extent as the boxes actually placed.
C3_OrderIndependent ==
    pc = "done" =>
        \A q \in PermsOf(week_df) :
            RowsAndExtents(build_timeline_slide(q, monday_next, sunday_next))
                = RowsAndExtents(placed)

C3_Witness ==
    /\ pc = "done"
    /\ Len(placed) >= 2
    /\ week_df # filter_week_df(df, monday_next, sunday_next)
    /\ \E a, b \in 1..Len(placed) : placed[a].row # placed[b].row

\* C4: the previous, current and next windows of a reference date are
\* pairwise disjoint and exactly contiguous: previous end + 1 microsecond is
\* the current start, current end + 1 microsecond is the next start.
C4_WindowsContiguous ==
    pc # "compute_weeks" =>
        LET cur == week_bounds_current(ref_date)
        IN /\ AddDelta(sunday_prev, 0, 0, 1) = cur[1]
           /\ AddDelta(cur[2], 0, 0, 1) = monday_next
           /\ DtLeq(monday_prev, sunday_prev) /\ DtLess(sunday_prev, cur[1])
           /\ DtLeq(cur[1], cur[2]) /\ DtLess(cur[2], monday_next)
           /\ DtLeq(monday_next, sunday_next)

C4_Witness ==
    /\ pc = "filter_week_df"
    /\ ref_date = DT(2025, 9, 14, 23, 59, 59, 999999)
    /\ sunday_prev = DT(2025, 9, 7, 23, 59, 59, 999999)
    /\ monday_next = DT(2025, 9, 15, 0, 0, 0, 0)

\* C5: every window (previous, current, next) has end - start equal to
\* 7 * 86400 seconds minus 1 microsecond.
C5_WindowSpan ==
    pc # "compute_weeks" =>
        LET cur == week_bounds_current(ref_date)
            span == Delta(AddDelta(NoDate, 0, 7 * SECONDS_PER_DAY, 0 - 1), NoDate)
        IN /\ Delta(sunday_prev, monday_prev) = span
           /\ Delta(cur[2], cur[1]) = span
           /\ Delta(sunday_next, monday_next) = span

C5_Witness ==
    /\ pc = "sort_values"
    /\ ref_date = DT(2025, 9, 7, 15, 30, 0, 0)
    /\ Delta(sunday_next, monday_next) = <<6, 86399, 999999>>
    /\ sunday_next = DT(2025, 9, 14, 23, 59, 59, 999999)

\* C6: the current-week start is 00:00:00 of the latest Monday on or before
\* the reference date (its own day when it is a Monday), the next-week start
\* is exactly 7 days later; reference 2025-09-09 gives the next week
\* 2025-09-15 00:00:00 through 2025-09-21 23:59:59.999999.
C6_MondayOnOrBefore ==
    pc # "compute_weeks" =>
        LET mc == week_bounds_splus1(ref_date)[1]
        IN /\ Weekday(mc) = 0 /\ mc.sec = 0 /\ mc.us = 0
           /\ mc.ord <= ref_date.ord /\ ref_date.ord - mc.ord <= 6
           /\ Weekday(ref_date) = 0 => mc.ord = ref_date.ord
           /\ monday_next = [ord |-> mc.ord + 7, sec |-> 0, us |-> 0]
           /\ ref_date = DT(2025, 9, 9, 0, 0, 0, 0) =>
                /\ monday_next = DT(2025, 9, 15, 0, 0, 0, 0)
                /\ sunday_next = DT(2025, 9, 21, 23, 59, 59, 999999)

C6_Witness ==
    /\ pc = "iterrows"
    /\ ref_date = DT(2025, 9, 9, 0, 0, 0, 0)
    /\ monday_next = DT(2025, 9, 15, 0, 0, 0, 0)
    /\ sunday_next = DT(2025, 9, 21, 23, 59, 59, 999999)

InWindow(t, lo, hi) == ~DtLess(t, lo) /\ ~DtLess(hi, t)

\* C7: filter_week_df keeps a row if and only if start <= window end and
\* end >= window start; a row whose end equals the window start is kept,
\* nothing else is added and no kept row is duplicated.
C7_FilterIff ==
    pc \notin {"compute_weeks", "filter_week_df"} =>
        /\ \A k \in 1..Len(df) :
              (df[k] \in Range(week_df))
                  <=> (~DtLess(sunday_next, df[k].start_dt)
                       /\ ~DtLess(df[k].end_dt, monday_next))
        /\ \A k \in 1..Len(df) :
              df[k].end_dt = monday_next => df[k] \in Range(week_df)
        /\ Range(week_df) \subseteq Range(df)
        /\ Cardinality(Range(week_df)) = Len(week_df)

C7_Witness ==
    /\ pc = "sort_values"
    /\ \E row \in Range(week_df) : row.end_dt = monday_next
    /\ \E row \in Range(df) : row \notin Range(week_df)

\* C8: a row that starts inside one week and ends inside the following week
\* is kept by filter_week_df for both weeks, the windows being those of the
\* week-bounds functions (previous/current and current/next).
C8_BoundaryInBothWeeks ==
    pc \notin {"compute_weeks", "filter_week_df"} =>
        LET cur == week_bounds_current(ref_date)
        IN \A row \in Range(df) :
            /\ (InWindow(row.start_dt, cur[1], cur[2])
                /\ InWindow(row.end_dt, monday_next, sunday_next))
               => /\ row \in Range(filter_week_df(df, cur[1], cur[2]))
                  /\ row \in Range(week_df)
            /\ (InWindow(row.start_dt, monday_prev, sunday_prev)
                /\ InWindow(row.end_dt, cur[1], cur[2]))
               => /\ row \in Range(filter_week_df(df, monday_prev, sunday_prev))
                  /\ row \in Range(filter_week_df(df, cur[1], cur[2]))

C8_Witness ==
    /\ pc = "done"
    /\ \E k \in 1..Len(placed) :
        /\ DtLess(placed[k].raw_start, monday_next)
        /\ InWindow(placed[k].raw_start, week_bounds_current(ref_date)[1],
                    week_bounds_current(ref_date)[2])
        /\ DtLess(monday_next, placed[k].raw_end)
        /\ InWindow(placed[k].raw_end, monday_next, sunday_next)

ClampedAsSpecified(raw, clamped, lo, hi) ==
    /\ InWindow(raw, lo, hi) => clamped = raw
    /\ DtLess(raw, lo) => clamped = lo
    /\ DtLess(hi, raw) => clamped = hi

\* C9: for placement both timestamps of every row are clamped into
\* [monday_next, sunday_next] (unchanged inside, the bound outside); an event
\* from Sunday 20:00 of the window to Monday 02:00 after it ends exactly at
\* Sunday 23:59:59.999999.
C9_ClampToWeek ==
    pc \notin {"compute_weeks", "filter_week_df"} =>
        /\ \A k \in 1..Len(placed) :
              /\ ClampedAsSpecified(placed[k].raw_start, placed[k].start_dt,
                                    monday_next, sunday_next)
              /\ ClampedAsSpecified(placed[k].raw_end, placed[k].end_dt,
                                    monday_next, sunday_next)
              /\ (placed[k].raw_start = AddDelta(monday_next, 6, 20 * 3600, 0)
                  /\ placed[k].raw_end = AddDelta(monday_next, 7, 2 * 3600, 0))
                 => placed[k].end_dt = AddDelta(monday_next, 6, 86399, 999999)
        /\ \A row \in Range(df) :
              LET box == BoxOf(row, monday_next, sunday_next)
              IN /\ ClampedAsSpecified(row.start_dt, box.start_dt,
                                       monday_next, sunday_next)
                 /\ ClampedAsSpecified(row.end_dt, box.end_dt,
                                       monday_next, sunday_next)

C9_Witness ==
    /\ pc = "done"
    /\ \E k \in 1..Len(placed) :
        /\ placed[k].raw_start = DT(2025, 9, 21, 20, 0, 0, 0)
        /\ placed[k].raw_end = DT(2025, 9, 22, 2, 0, 0, 0)
        /\ placed[k].start_dt = placed[k].raw_start
        /\ placed[k].end_dt = DT(2025, 9, 21, 23, 59, 59, 999999)

ReplaceEndByStart(wdf, id) ==
    [k \in 1..Len(wdf) |->
        IF wdf[k].id = id THEN [wdf[k] EXCEPT !.end_dt = wdf[k].start_dt]
        ELSE wdf[k]]

BoxOfId(boxes, id) == CHOOSE b \in Range(boxes) : b.id = id

AsIfEndWereStart(k) ==
    BoxOfId(build_timeline_slide(ReplaceEndByStart(week_df, placed[k].id),
                                 monday_next, sunday_next), placed[k].id)

SameExtent(a, b) == a.left_emu = b.left_emu /\ a.right_emu = b.right_emu

\* C10 as stated: an event whose raw end is earlier than its raw start gets
\* the row and the extent it would get with its end replaced by its start.
C10_AsIfEndEqualsStart ==
    pc = "done" =>
        \A k \in 1..Len(placed) :
            DtLess(placed[k].raw_end, placed[k].raw_start) =>
                /\ SameExtent(AsIfEndWereStart(k), placed[k])
                /\ AsIfEndWereStart(k).row = placed[k].row

\* C10 as amended: on a slide whose day column is narrower than the minimum
\* box width, such an event gets the extent it would get with its end
\* replaced by its start, and the same row when no other row of the slide
\* has the same raw start (the sort key includes the raw end, so among rows
\* of equal start the processing order, hence the row, can change).
C10_SameExtentAndRowUnlessTie ==
    (pc = "done" /\ FxLess(col_width, FxInt(MinBoxWidth))) =>
        \A k \in 1..Len(placed) :
            DtLess(placed[k].raw_end, placed[k].raw_start) =>
                /\ SameExtent(AsIfEndWereStart(k), placed[k])
                /\ (\A j \in 1..Len(placed) :
                        j # k => placed[j].raw_start # placed[k].raw_start)
                   => AsIfEndWereStart(k).row = placed[k].row

C10_Witness ==
    /\ pc = "done"
    /\ \E k \in 1..Len(placed) :
        /\ DtLess(placed[k].raw_end, placed[k].raw_start)
        /\ placed[k].row = 1
        /\ \A j \in 1..Len(placed) :
              j # k => placed[j].raw_start # placed[k].raw_start

Buckets ==
    {"", "succes", "succes_difficulte", "partiel", "echec_sans_retour",
     "echec_avec_retour"}

HasKeyword(t) ==
    \E w \in {K_succes, K_reussi, K_partiel, K_partial, K_echec, K_fail,
              K_rollback, K_retour_arriere} : Contains(t, w)

\* C11: classify_closure returns one of its buckets for every label, the
\* empty string and pure whitespace included, and a label without any
\* recognised keyword is mapped to '' (ignored).
C11_ClassifyTotal ==
    bucket # "pending" =>
        /\ bucket \in Buckets
        /\ _norm_text(code) = <<>> => bucket = ""
        /\ ~HasKeyword(_norm_text(code)) => bucket = ""

C11_Witness ==
    /\ bucket = ""
    /\ code = <<" ">> \o <<"R", "e", "t", "o", "u", "r">> \o <<" ">>
                \o <<"o", "k">> \o <<" ">>

\* 'sans' occurs in t before an occurrence of a rollback term
OccursAt(t, w, i) ==
    i + Len(w) - 1 <= Len(t) /\ SubSeq(t, i, i + Len(w) - 1) = w

SansBeforeRollback(t) ==
    \E i, j \in 1..Len(t) :
        /\ i < j
        /\ OccursAt(t, K_sans, i)
        /\ OccursAt(t, K_retour, j) \/ OccursAt(t, K_rollback, j)

\* C12: a label with a failure keyword (and no success or partial keyword)
\* and a rollback term is 'failure, no rollback' only when 'sans' occurs
\* before the rollback term and 'failure, with rollback' otherwise; without
\* a rollback term it is 'failure, no rollback'.
C12_SansBeforeRollback ==
    LET t == _norm_text(code)
    IN (/\ bucket # "pending"
        /\ Contains(t, K_echec) \/ Contains(t, K_fail)
        /\ ~(Contains(t, K_succes) \/ Contains(t, K_reussi))
        /\ ~(Contains(t, K_partiel) \/ Contains(t, K_partial)))
       => IF Contains(t, K_retour) \/ Contains(t, K_rollback)
          THEN bucket = (IF SansBeforeRollback(t) THEN "echec_sans_retour"
                         ELSE "echec_avec_retour")
          ELSE bucket = "echec_sans_retour"

\* C13: when a required column is absent after harmonization, the run fails
\* with an error naming the missing columns and all present columns, before
\* any date is parsed, any row filtered or any slide built.
C13_MissingColumnsFailFirst ==
    LET absent == { c \in Range(REQUIRED_COLS) :
                      c \notin Range(_harmonize_columns(columns)) }
    IN (run_pc \notin {"load", "columns"} /\ error.type # "load" /\ absent # {})
       => /\ run_pc = "failed"
          /\ error.type = "ValueError"
          /\ absent \subseteq Range(error.missing)
          /\ Range(error.missing)
                = { c \in Range(REQUIRED_COLS) : c \notin Range(df_columns) }
          /\ error.present = df_columns
          /\ events = <<>> /\ run_week = <<>> /\ built = {} /\ ~out_written

C13_Witness ==
    /\ run_pc = "failed" /\ path = "services"
    /\ "numero" \in Range(columns) /\ "Numéro" \in Range(df_columns)
    /\ error.missing = <<"Type", "Date de fin planifiée">>
    /\ "Foo" \in Range(error.present)

\* C14: when a planned-start or planned-end cell of any row is not in a
\* recognised date format (an empty or missing value included), building
\* the event table fails; no date of the table is a null date.
C14_UnrecognisedDateFails ==
    (run_pc \notin {"load", "columns", "parse"} /\ error.type \notin {"load", "ValueError"})
    => /\ (\E k \in 1..Len(cells) :
              \/ cells[k].start.kind \in {"null", "garbage"}
              \/ cells[k].end.kind \in {"null", "garbage"})
          => (run_pc = "failed" /\ error.type = "date")
       /\ \A k \in 1..Len(events) :
              events[k].start_dt # NaT /\ events[k].end_dt # NaT

\* C17: the output file is written only by the last step, after the
\* timeline and the detail slides (and the S-1 slides when asked for) are
\* built; a run that fails on loading, on the schema, on a date, on the
\* template or while building slides has not written it.
C17_WriteLast ==
    /\ out_written =>
          /\ {"timeline", "details"} \subseteq built
          /\ run_pc = "exit" \/ (run_pc = "failed" /\ error.type = "save")
    /\ (run_pc = "failed" /\ error.type # "save") => ~out_written
    /\ run_pc \notin {"exit", "failed"} => ~out_written

C17_Witness ==
    /\ run_pc = "exit" /\ out_written
    /\ built = {"timeline", "details", "sminus1"}

\* C15: for a template with at least one layout and any requested integer
\* index, choose_detail_layout returns the layout at the index clamped into
\* [0, total-1] without raising, and warns exactly when the requested index
\* differs from the clamped one.
C15_ClampedLayoutIndex ==
    LET total == Len(slide_layouts)
        v == layout_index.value
        clamped == IF v < 0 THEN 0 ELSE IF v > total - 1 THEN total - 1 ELSE v
    IN (layout_result # NotCalled /\ total >= 1 /\ layout_index.given)
       => /\ ~layout_result.raised
          /\ layout_result.idx = clamped
          /\ layout_result.warned <=> (v # clamped)

C15_Witness ==
    /\ Len(slide_layouts) = 3
    /\ layout_index = [given |-> TRUE, value |-> 0 - 2]
    /\ layout_result = [raised |-> FALSE, idx |-> 0, warned |-> TRUE]

\* A value that is six hexadecimal digits, read generously: surrounding
\* whitespace and leading '#' characters are not counted
SixHexDigits(value) ==
    LET text == lstrip_hash(strip(value))
    IN Len(text) = 6 /\ \A k \in 1..6 : HexValue(text[k]) < 16

NormKey(k) == lower(strip(overrides[k].key))

\* C16: set_timeline_color_map never raises; an override whose value is not
\* a 6-hex-digit colour is ignored with a warning and the default of its key
\* stays in place, and the remaining overrides are still processed.
C16_InvalidColorIgnored ==
    color_result.called =>
        /\ ~color_result.raised
        /\ \A k \in 1..Len(overrides) :
              (NormKey(k) # <<>> /\ ~SixHexDigits(overrides[k].value))
              => /\ NormKey(k) \in Range(color_result.warnings)
                 /\ (\A j \in 1..Len(overrides) : j # k => NormKey(j) # NormKey(k))
                    => IF NormKey(k) \in DOMAIN _DEFAULT_COLOR_MAP
                       THEN COLOR_MAP[NormKey(k)] = _DEFAULT_COLOR_MAP[NormKey(k)]
                       ELSE NormKey(k) \notin DOMAIN COLOR_MAP
        /\ \A k \in 1..Len(overrides) :
              (/\ NormKey(k) # <<>> /\ SixHexDigits(overrides[k].value)
               /\ \A j \in 1..Len(overrides) : j # k => NormKey(j) # NormKey(k))
              => /\ NormKey(k) \in DOMAIN COLOR_MAP
                 /\ COLOR_MAP[NormKey(k)] = _parse_hex_color(overrides[k].value).rgb

\* The rows in use before the k-th box is placed, and those of them holding
\* a box whose extent overlaps the k-th box
RowsBefore(k) == { placed[j].row : j \in 1..(k - 1) }

BlockedRows(k) ==
    { placed[j].row : j \in { i \in 1..(k - 1) : HalfOpenOverlap(placed[i], placed[k]) } }

C19_ProcessingOrder ==
    \A a, b \in 1..Len(placed) :
        a < b =>
            \/ DtLess(placed[a].raw_start, placed[b].raw_start)
            \/ /\ placed[a].raw_start = placed[b].raw_start
               /\ DtLess(placed[a].raw_end, placed[b].raw_end)
            \/ /\ placed[a].raw_start = placed[b].raw_start
               /\ placed[a].raw_end = placed[b].raw_end
               /\ placed[a].id < placed[b].id

C19_Witness ==
    /\ pc = "done"
    /\ Len(placed) = 2 /\ Len(df) = 2
    /\ placed[1].raw_start = placed[2].raw_start
    /\ placed[1].raw_end = placed[2].raw_end
    /\ placed[1].id < placed[2].id
    /\ df[1].id = placed[2].id

IndicesAndFractionsInRange(box) ==
    /\ 0 <= box.start_idx /\ box.start_idx <= box.end_idx /\ box.end_idx <= 6
    /\ \A f \in {box.start_frac, box.end_frac} :
          /\ 0 <= f.sec /\ 0 <= f.us /\ f.us < US_PER_SECOND
          /\ f.sec < SECONDS_PER_DAY \/ (f.sec = SECONDS_PER_DAY /\ f.us = 0)

\* C20: for every event placed in a week window, and for every row of the
\* table whatever its raw start and end, 0 <= start_idx <= end_idx <= 6 and
\* both day fractions are in [0, 1].
C20_IndicesInRange ==
    pc \notin {"compute_weeks", "filter_week_df"} =>
        /\ \A k \in 1..Len(placed) : IndicesAndFractionsInRange(placed[k])
        /\ \A row \in Range(df) :
              IndicesAndFractionsInRange(BoxOf(row, monday_next, sunday_next))

C20_Witness ==
    /\ pc = "done"
    /\ \E k \in 1..Len(placed) :
          /\ DtLess(placed[k].raw_end, placed[k].raw_start)
          /\ day_index(placed[k].end_dt, monday_next) < placed[k].start_idx
          /\ placed[k].end_idx = placed[k].start_idx
    /\ \E row \in Range(df) : DtLess(row.end_dt, monday_next)

\* The position of the clamped raw start of a box
LeftOfClampedStart(box) ==
    LET start_dt == clamp_to_week(box.raw_start, monday_next, sunday_next)
    IN EdgeAt(day_index(start_dt, monday_next), time_fraction_of_day(start_dt))

\* C21: the minimum-width expansion moves the right edge only: the left edge
\* of every placed box is the position of its clamped start (start_idx,
\* start_frac), whether or not the box was widened.
C21_LeftEdgeFromStart ==
    \A k \in 1..Len(placed) :
        /\ placed[k].left = LeftOfClampedStart(placed[k])
        /\ placed[k].left = EdgeAt(placed[k].start_idx, placed[k].start_frac)
        /\ placed[k].left_emu = FxTrunc(LeftOfClampedStart(placed[k]))

C21_Witness ==
    /\ pc = "done"
    /\ \E a, b \in 1..Len(placed) :
          /\ placed[a].widened /\ ~placed[b].widened
          /\ placed[a].left_emu > grid_left
          /\ placed[a].right_emu = placed[a].left_emu + MinBoxWidth

\* The boxes drawn when the whole table is passed to build_timeline_slide
UnfilteredBoxes == Range(build_timeline_slide(df, monday_next, sunday_next))

\* C22: an event lying entirely before monday_next or entirely after
\* sunday_next that is passed to build_timeline_slide gets both clamped
\* timestamps equal to that bound and a box of exactly the minimum width
\* starting at the position of that bound.
C22_OutsideEventAtBoundary ==
    pc \notin {"compute_weeks"} =>
        \A box \in UnfilteredBoxes :
            /\ (DtLess(box.raw_start, monday_next) /\ DtLess(box.raw_end, monday_next))
               => /\ box.start_dt = monday_next /\ box.end_dt = monday_next
                  /\ box.left = EdgeAt(0, [sec |-> 0, us |-> 0])
                  /\ box.width = FxInt(MinBoxWidth)
                  /\ box.right_emu - box.left_emu = MinBoxWidth
            /\ (DtLess(sunday_next, box.raw_start) /\ DtLess(sunday_next, box.raw_end))
               => /\ box.start_dt = sunday_next /\ box.end_dt = sunday_next
                  /\ box.left = EdgeAt(6, [sec |-> 86399, us |-> 999999])
                  /\ box.width = FxInt(MinBoxWidth)
                  /\ FxTrunc(FxAdd(box.left, FxInt(MinBoxWidth))) = box.right_emu

C22_Witness ==
    /\ pc = "done"
    /\ week_df = <<>>
    /\ \E b \in UnfilteredBoxes :
          /\ DtLess(sunday_next, b.raw_start) /\ DtLess(sunday_next, b.raw_end)
          /\ b.start_dt = sunday_next /\ b.end_dt = sunday_next
          /\ b.widened
          /\ b.left_emu > grid_left

MatchesSuccess(t) == Contains(t, K_succes) \/ Contains(t, K_reussi)

MatchesPartial(t) == Contains(t, K_partiel) \/ Contains(t, K_partial)

MatchesFailure(t) == Contains(t, K_echec) \/ Contains(t, K_fail)

MatchesRollbackOnly(t) == Contains(t, K_rollback) \/ Contains(t, K_retour_arriere)

\* C23: the buckets are tested in the order success (success with
\* difficulty when a difficulty keyword is present too), partial, failure,
\* rollback-only: a label matching keywords of several buckets gets the
\* earliest of them.
C23_PriorityOrder ==
    LET t == _norm_text(code)
    IN bucket # "pending" =>
        /\ MatchesSuccess(t) =>
              bucket = (IF Contains(t, K_diffic) THEN "succes_difficulte" ELSE "succes")
        /\ (~MatchesSuccess(t) /\ MatchesPartial(t)) => bucket = "partiel"
        /\ (~MatchesSuccess(t) /\ ~MatchesPartial(t) /\ MatchesFailure(t))
              => bucket \in {"echec_sans_retour", "echec_avec_retour"}
        /\ (/\ ~MatchesSuccess(t) /\ ~MatchesPartial(t) /\ ~MatchesFailure(t)
            /\ MatchesRollbackOnly(t))
              => bucket = "echec_avec_retour"

C23_Witness ==
    /\ bucket = "succes_difficulte"
    /\ MatchesSuccess(_norm_text(code))
    /\ MatchesPartial(_norm_text(code))
    /\ Contains(_norm_text(code), K_diffic)

\* str.upper() on one character: the capital of "dotless-i" is "I"
UpperChar(c) ==
    IF c = "dotless-i" THEN "I"
    ELSE IF \E p \in CasePairs : p[1] = c
    THEN (CHOOSE p \in CasePairs : p[1] = c)[2]
    ELSE c

upper(str) == [k \in 1..Len(str) |-> UpperChar(str[k])]

AddAccents(str) ==
    [k \in 1..Len(str) |->
        CASE str[k] = "e" -> "e-acute"
          [] str[k] = "E" -> "E-grave"
          [] OTHER -> str[k]]

\* The same label in another case, with or without accents, padded or not
Variants(str) ==
    { upper(str), lower(str), strip_accents(str), AddAccents(str),
      upper(AddAccents(str)), strip(str), <<" ">> \o str \o <<" ", " ">> }

\* C24 as stated: changing the case of the letters of a label, adding or
\* removing accents, or adding leading or trailing whitespace never changes
\* the bucket.
C24_InsensitiveToCaseAccentsSpace ==
    bucket # "pending" =>
        \A v \in Variants(code) : classify_closure(v) = bucket

\* Letters that str.lower() brings back after str.upper()
CaseRoundTrips(str) ==
    \A k \in 1..Len(str) : LowerChar(UpperChar(str[k])) = LowerChar(str[k])

\* C24 as amended: the same, for labels made of letters whose uppercase
\* form is lowered back to their lowercase form (every ASCII and French
\* accented letter; not the dotless i, whose capital I is lowered to i).
C24_InsensitiveWhenCaseRoundTrips ==
    (bucket # "pending" /\ CaseRoundTrips(code)) =>
        \A v \in Variants(code) : classify_closure(v) = bucket

C24_Witness ==
    /\ bucket = "echec_avec_retour"
    /\ code = <<" ">> \o <<"E-acute", "c", "h", "e", "c">> \o <<" ">>
                \o <<"R", "e", "t", "o", "u", "r">> \o <<" ">>
                \o <<"a", "r", "r", "i", "e-grave", "r", "e">> \o <<" ">>
    /\ classify_closure(upper(code)) = bucket

\* C25: whatever calls of set_rfc_url_template are made, the active
\* template contains '{rfc}': a call with an empty argument, with an
\* argument that is not a string or with a string lacking '{rfc}' leaves the
\* template unchanged, and a call with a string containing '{rfc}' makes
\* that string the template.
C25_TemplateKeepsPlaceholder ==
    [][/\ Contains(RFC_URL_TEMPLATE, K_rfc)
       /\ Contains(RFC_URL_TEMPLATE', K_rfc)
       /\ IF rfc_arg'.type = "str" /\ Contains(rfc_arg'.text, K_rfc)
          THEN RFC_URL_TEMPLATE' = rfc_arg'.text
          ELSE RFC_URL_TEMPLATE' = RFC_URL_TEMPLATE]_vars

C25_Witness ==
    /\ RFC_URL_TEMPLATE = <<"u", "/", "{", "r", "f", "c", "}">>
    /\ rfc_arg = [type |-> "list", text |-> K_rfc]

\* The entries of the most recent call that carry a key and a six-digit
\* colour, and the map they give on top of the defaults (the last entry of a
\* key wins)
ValidEntries ==
    { k \in 1..Len(overrides) :
        NormKey(k) # <<>> /\ SixHexDigits(overrides[k].value) }

LastValid(key) ==
    CHOOSE k \in ValidEntries :
        NormKey(k) = key /\ \A j \in ValidEntries : NormKey(j) = key => j <= k

DefaultsWithValidEntries ==
    [key \in DOMAIN _DEFAULT_COLOR_MAP \cup { NormKey(k) : k \in ValidEntries } |->
        IF \E k \in ValidEntries : NormKey(k) = key
        THEN _parse_hex_color(overrides[LastValid(key)].value).rgb
        ELSE _DEFAULT_COLOR_MAP[key]]

\* C26: after any sequence of set_timeline_color_map calls the colour map is
\* the defaults overridden by the valid entries of the most recent call
\* only; a call with None, with a value that is not a dict or with an empty
\* dict restores exactly the defaults.
C26_OnlyLastCallCounts ==
    /\ COLOR_MAP = (IF overrides_type = "dict" THEN DefaultsWithValidEntries
                    ELSE _DEFAULT_COLOR_MAP)
    /\ (overrides_type # "dict" \/ overrides = <<>>) => COLOR_MAP = _DEFAULT_COLOR_MAP

\* The number of placed extents [left_emu, right_emu) that contain point p
DepthAt(p) ==
    Cardinality({ k \in 1..Len(placed) :
                    placed[k].left_emu <= p /\ p < placed[k].right_emu })

\* The largest number of extents sharing a point; a maximal set of extents
\* with a common point has the largest of its left edges in common
MaxDepth ==
    IF placed = <<>> THEN 0
    ELSE LET depths == { DepthAt(placed[k].left_emu) : k \in 1..Len(placed) }
         IN CHOOSE d \in depths : \A e \in depths : e <= d

UsedRows == { placed[k].row : k \in 1..Len(placed) }

grid_right == grid_left + grid_width

\* C28: every placed box lies within the 7-day grid: its left edge is not
\* left of the grid and its right edge, after the minimum-width expansion,
\* is not right of the last day column.
C28_BoxWithinGrid ==
    \A k \in 1..Len(placed) :
        /\ grid_left <= placed[k].left_emu
        /\ ~FxLess(placed[k].left, FxInt(grid_left))
        /\ placed[k].right_emu <= grid_right
        /\ ~FxLess(FxInt(grid_right), FxAdd(placed[k].left, placed[k].width))

\* C30: _harmonize_columns never produces two columns with the same name:
\* for distinct input labels the output labels are distinct.
C30_HarmonizedNamesDistinct ==
    (path = "services" /\ run_pc \notin {"load", "columns"} /\ error.type # "load")
    => /\ Cardinality(Range(columns)) = Len(columns)
       /\ df_columns = _harmonize_columns(columns)
       /\ Cardinality(Range(df_columns)) = Len(df_columns)

\* The number of timeline slides of the presentation that draw row k
TimelinesDrawing(k) ==
    Cardinality({ p \in 1..Len(prs_slides) :
                    /\ prs_slides[p].kind = "timeline"
                    /\ k \in Range(prs_slides[p].rows) })

\* C29: in build_base_presentation every event of the filtered week is drawn
\* on exactly one of the four timeline slides whatever its Type value: none
\* is drawn twice, and one with an unrecognized or empty Type is still drawn.
C29_EveryEventOnOneTimeline ==
    prs_slides # <<>> => \A k \in 1..Len(base_week) : TimelinesDrawing(k) = 1

====
